---- MODULE Spec2Model ----
(***************************************************************************)
(* The SecureDrop API client (src/src/client.rs) as a state machine: the   *)
(* Client value (url_base, auth), the one HTTP request each operation      *)
(* dispatches, the outcome the transport hands back, and the Result the    *)
(* operation returns after parse_req / parse_json have classified it.      *)
(***************************************************************************)
EXTENDS Integers, Sequences, FiniteSets, TLC

\* ------------------------------------------------------------------ bounds

\* At most this many HTTP requests are dispatched in one behaviour.
MaxRequests == 3


\* ------------------------------------------------------------ value domains

\* The two URL bases of the doc comment of Client::new: one without a path,
\* one with the path /some/path/.
UrlBases ==
    { [origin |-> "http://localhost:8081", path |-> << >>],
      [origin |-> "https://someonionservice.onion", path |-> <<"some", "path">>] }

NoUrl == [origin |-> "", path |-> << >>]

\* UserPassTotp::new / UserPassHotp::new keep their three arguments as given.
UserPassTotp_new(username, passphrase, one_time_code) ==
    [username |-> username, passphrase |-> passphrase, one_time_code |-> one_time_code]

UserPassHotp_new(username, passphrase, one_time_code) ==
    [username |-> username, passphrase |-> passphrase, one_time_code |-> one_time_code]

\* Into<Credentials>: the struct wrapped in its variant of the enum.
IntoCredentials(variant, c) == [variant |-> variant, inner |-> c]

\* The credentials a caller hands to Client::new or reauthorize.
CredentialInputs ==
    { IntoCredentials("UserPassTotp", UserPassTotp_new("journalist", "good pass", "123123")),
      IntoCredentials("UserPassHotp", UserPassHotp_new("journalist", "bad pass", "DEADBEEF")) }

\* #[derive(Serialize)] of UserPassTotp and of UserPassHotp, each with its
\* passphrase field renamed to password; Credentials::serialize delegates to
\* the variant's struct.
SerializeUserPassTotp(c) ==
    [username |-> c.username, password |-> c.passphrase, one_time_code |-> c.one_time_code]

\* The HOTP struct serialized without its #[serde(rename = "password")].
SerializeUserPassHotp_no_rename(c) ==
    [username |-> c.username, passphrase |-> c.passphrase, one_time_code |-> c.one_time_code]

SerializeUserPassHotp(c) ==
    [username |-> c.username, password |-> c.passphrase, one_time_code |-> c.one_time_code]

SerializeCredentials(creds) ==
    IF creds.variant = "UserPassTotp"
    THEN SerializeUserPassTotp(creds.inner)
    ELSE SerializeUserPassHotp(creds.inner)

\* The credentials the serializer is tried on: both variants, over every
\* username, passphrase and one-time code below.
Usernames == {"journalist", "dellsberg"}

Passphrases == {"correct horse battery staple", ""}

OneTimeCodes == {"123123", "DEADBEEF", ""}

SerializeInputs ==
    { IntoCredentials("UserPassTotp", UserPassTotp_new(u, p, c)) :
          u \in Usernames, p \in Passphrases, c \in OneTimeCodes }
    \cup
    { IntoCredentials("UserPassHotp", UserPassHotp_new(u, p, c)) :
          u \in Usernames, p \in Passphrases, c \in OneTimeCodes }

\* The token strings a server may issue, and the error messages it may send.
TokenStrings == {"tokA", "tokB"}

Messages == {"Forbidden"}

\* The filesystem ids and submission ids a caller passes.
FilesystemIds == {"fsid"}

SubmissionIds == {7}

\* The payloads a download may carry: empty, one byte, two bytes in either order.
Payloads == { << >>, <<"x">>, <<"x", "y">>, <<"y", "x">> }

\* Response bodies, by the JSON shape they have: "token" is
\* {"token": .., "expires": ..}, "token_no_expiry" is {"token": ..}, "message"
\* is {"message": ..}, "string" is a bare JSON string, "sources", "source",
\* "submissions", "submission" and "user" are the objects of data.rs, and
\* "garbage" is not JSON at all.
JsonBodies ==
    [shape : {"token"}, val : TokenStrings]
    \cup [shape : {"message", "string"}, val : Messages]
    \cup [shape : {"token_no_expiry", "sources", "source", "submissions", "submission",
                   "user", "garbage"},
          val : {""}]

\* The JSON shape that decodes as each type an operation expects.
ShapeOf(T) ==
    CASE T = "AuthToken" -> "token"
      [] T = "String" -> "string"
      [] T = "Response" -> "message"
      [] T = "Sources" -> "sources"
      [] T = "Source" -> "source"
      [] T = "Submissions" -> "submissions"
      [] T = "Submission" -> "submission"
      [] T = "User" -> "user"

\* The bodies tried on an operation expecting T: the shape of T, an error
\* message as an object and as a bare string, the object of another type,
\* and a body that is not JSON.
BodiesFor(T) ==
    { b \in JsonBodies :
        b.shape \in {ShapeOf(T), "message", "string", "garbage",
                     IF T = "AuthToken" THEN "token_no_expiry" ELSE "user"} }

RawBodies == [shape : {"raw"}, val : Payloads]

\* The bytes of a body as the transport delivers them: a raw payload byte by
\* byte, the text of any other body as one opaque unit.
BodyBytes(body) == IF body.shape = "raw" THEN body.val ELSE <<body.shape>>

\* Status codes: the edges of each class and the codes the spec names.
Statuses == {199, 200, 204, 302, 403, 500, 503}

\* reqwest::Error kinds that RequestBuilder::send can return.
SendErrorKinds == {"Io", "Http", "Tls"}

\* What the transport hands back from send(): Ok(response) or Err(error).
HttpResponses(bodies) == [ok : {TRUE}, status : Statuses, body : bodies]

TransportErrors == [ok : {FALSE}, kind : SendErrorKinds]

\* The token endpoint's answer that issues a token: a 2xx status with a body
\* {"token": .., "expires": ..}.
TokenIssued(resp) == resp.ok /\ resp.status \in 200..299 /\ resp.body.shape = "token"

\* ------------------------------------------------------------------- state

VARIABLES
    alive,          \* TRUE once Client::new has returned Ok(client)
    url_base,       \* Client.url_base
    auth,           \* Client.auth: Authorization::Credentials(c) or ::Token(t)
    nreq,           \* number of HTTP requests dispatched so far
    call,           \* the operation called last, with its arguments
    request,        \* the request that operation dispatched
    response,       \* what send() returned for it
    result,         \* the Result the operation returned to its caller
    sink,           \* what the operation wrote to the caller's sink
    io_cut,         \* the byte count at which its copy to the sink failed, -1 if none did
    token_exchange, \* history: the number of the request whose response holds the current token
    reauth_at,      \* history: the number of the request of the latest reauthorize
    reauth_failed,  \* history: TRUE while the latest reauthorize is one that returned Err
    exchanged       \* history: TRUE once the token endpoint has answered 2xx with a token

vars ==
    << alive, url_base, auth, nreq, call, request, response, result, sink, io_cut,
       token_exchange, reauth_at, reauth_failed, exchanged >>

\* -------------------------------------------------------- auth.rs: state

\* Authorization::Credentials(creds) and Authorization::Token(token).
AuthCredentials(creds) == [kind |-> "Credentials", creds |-> creds]

AuthTokenState(token) == [kind |-> "Token", token |-> token]

NoAuth == [kind |-> "None"]

\* Display for AuthToken prints the token string alone.
AuthTokenDisplay(token) == token.token

\* ------------------------------------------------- error.rs / lib.rs: Result

ErrorKinds ==
    { "AuthError", "ClientError", "IO", "NetworkError", "ProgrammingError",
      "ServerError", "UnknownError" }

Ok(v) == [kind |-> "Ok", val |-> v]

Err(kind, detail) == [kind |-> kind, val |-> detail]

NoResult == [kind |-> "None", val |-> ""]

\* ------------------------------------------------------ client.rs: helpers

\* Url::set_path replaces the whole path of the clone of url_base.
url(base, path) == [origin |-> base.origin, path |-> <<"api", "v1">> \o path]

NoHeaders == [h \in {} |-> ""]

\* Headers::set: one value per header name, the last one set.
SetHeader(headers, name, value) == (name :> value) @@ headers

auth_header(a, headers) ==
    IF a.kind = "Token"
    THEN SetHeader(headers, "Authorization", <<"Token ", AuthTokenDisplay(a.token)>>)
    ELSE headers

headers(a) ==
    auth_header(a,
        SetHeader(SetHeader(NoHeaders, "Content-Type", "application/json"),
                  "Accept", "application/json"))

\* StatusCode::is_success / is_server_error / is_client_error.
is_success(status) == status \in 200..299

\* A server-error test that knows 500 alone.
is_server_error_500_only(status) == status = 500

is_server_error(status) == status \in 500..599

\* A client-error test that takes the 3xx codes as well.
is_client_error_from_300(status) == status \in 300..499

is_client_error(status) == status \in 400..499

\* An is_http that holds of no error.
err_is_http_never(err) == FALSE

\* reqwest::Error::is_http / is_server_error on the error of a failed send:
\* is_http holds of an error of the HTTP protocol layer (no response could be
\* read), is_server_error of an error made from a 5xx status, which send()
\* does not return.
err_is_http(err) == err.kind = "Http"

err_is_server_error(err) == err.kind = "ServerError"

\* Response::json::<T>(): the body decoded as T, or the decoder's error.
json(body, T) ==
    IF body.shape # ShapeOf(T) THEN [ok |-> FALSE, val |-> "decode error"]
    ELSE CASE T = "AuthToken" -> [ok |-> TRUE, val |-> [token |-> body.val, expires |-> "expires"]]
           [] T = "String" -> [ok |-> TRUE, val |-> body.val]
           [] T = "Response" -> [ok |-> TRUE, val |-> [message |-> body.val]]
           [] T = "Sources" -> [ok |-> TRUE, val |-> [sources |-> << >>]]
           [] T = "Source" -> [ok |-> TRUE, val |-> [uuid |-> "uuid"]]
           [] T = "Submissions" -> [ok |-> TRUE, val |-> [submissions |-> << >>]]
           [] T = "Submission" -> [ok |-> TRUE, val |-> [filename |-> "1-msg.gpg"]]
           [] T = "User" -> [ok |-> TRUE, val |-> [username |-> "journalist"]]

\* A parse_req that reports a 401 or 403 as AuthError.
parse_req_auth_error(resp, func_resp) ==
    IF resp.ok /\ is_success(resp.status) THEN func_resp
    ELSE IF resp.ok THEN
        IF is_server_error(resp.status) THEN Err("ServerError", "")
        ELSE IF resp.status \in {401, 403} THEN Err("AuthError", "")
        ELSE IF is_client_error(resp.status) THEN
            LET err == json(resp.body, "String")
            IN  IF err.ok THEN Err("ClientError", err.val)
                ELSE Err("ProgrammingError", "Parse failure.")
        ELSE Err("UnknownError", "")
    ELSE
        IF ~err_is_http(resp) THEN Err("NetworkError", "")
        ELSE IF err_is_server_error(resp) THEN Err("ServerError", "")
        ELSE Err("UnknownError", "")

\* parse_req(resp, func): the classification of what send() returned.
\* func_resp stands for func(resp), the closure's result on the response; it
\* is used on a response with a success status and on nothing else.
parse_req(resp, func_resp) ==
    IF resp.ok /\ is_success(resp.status) THEN func_resp
    ELSE IF resp.ok THEN
        IF is_server_error(resp.status) THEN Err("ServerError", "")
        ELSE IF is_client_error(resp.status) THEN
            LET err == json(resp.body, "String")
            IN  IF err.ok THEN Err("ClientError", err.val)
                ELSE Err("ProgrammingError", "Parse failure.")
        ELSE Err("UnknownError", "")
    ELSE
        IF ~err_is_http(resp) THEN Err("NetworkError", "")
        ELSE IF err_is_server_error(resp) THEN Err("ServerError", "")
        ELSE Err("UnknownError", "")

\* A parse_json closure that reports a decoding error as UnknownError.
parse_json_closure_unknown(resp, T) ==
    LET a == json(resp.body, T)
    IN  IF a.ok THEN Ok(a.val) ELSE Err("UnknownError", "")

\* The closure parse_json passes to parse_req: resp.json::<T>(), a decoding
\* error turned into ProgrammingError(e.to_string()).
parse_json_closure(resp, T) ==
    LET a == json(resp.body, T)
    IN  IF a.ok THEN Ok(a.val) ELSE Err("ProgrammingError", a.val)

parse_json(resp, T) == parse_req(resp, parse_json_closure(resp, T))

\* A request as handed to send(): body is << >> when the builder sets none.
Request(method, u, hdrs, body) ==
    [method |-> method, url |-> u, headers |-> hdrs, body |-> body]

NoRequest == [method |-> "", url |-> NoUrl, headers |-> NoHeaders, body |-> << >>]

NoResponse == [ok |-> FALSE, kind |-> "None"]

\* The token request built without the call to json(&creds).
authorize_request_no_body(a, base) ==
    Request("POST", url(base, <<"token">>), headers(a), << >>)

\* The request authorize builds in state a: POST token, with the serialized
\* credentials as its JSON body in the Credentials state and no body in the
\* Token state.
authorize_request(a, base) ==
    IF a.kind = "Credentials"
    THEN Request("POST", url(base, <<"token">>), headers(a), <<SerializeCredentials(a.creds)>>)
    ELSE Request("POST", url(base, <<"token">>), headers(a), << >>)

\* An authorize that drops the error of the exchange instead of returning it.
authorize_ignores_failure(a, resp) ==
    LET parsed == parse_json(resp, "AuthToken")
    IN  IF parsed.kind = "Ok"
        THEN [result |-> Ok("unit"), auth |-> AuthTokenState(parsed.val)]
        ELSE [result |-> Ok("unit"), auth |-> a]

\* An authorize that returns Ok without storing the token it decoded.
authorize_discards_token(a, resp) ==
    LET parsed == parse_json(resp, "AuthToken")
    IN  IF parsed.kind = "Ok"
        THEN [result |-> Ok("unit"), auth |-> a]
        ELSE [result |-> parsed, auth |-> a]

\* authorize on a client in state a, given what send() returned: the Result
\* and the state it leaves (the `?` returns before self.auth is assigned).
authorize(a, resp) ==
    LET parsed == parse_json(resp, "AuthToken")
    IN  IF parsed.kind = "Ok"
        THEN [result |-> Ok("unit"), auth |-> AuthTokenState(parsed.val)]
        ELSE [result |-> parsed, auth |-> a]

\* A reauthorize that goes to the token endpoint before it lets go of the
\* token it holds.
reauthorize_state_keeps_token(a, creds) == a

\* The state in which reauthorize calls authorize: self.auth is assigned
\* Credentials(credentials) first, whatever it held.
reauthorize_state(a, creds) == AuthCredentials(creds)

\* ------------------------------------------------------ data.rs: Reply

\* A reply text is a sequence of units; the armor lines are one unit each.
BeginMarker == <<"-----", "BEGIN PGP MESSAGE", "-----">>

EndMarker == <<"-----", "END PGP MESSAGE", "-----">>

\* The texts a caller may try: armored ones, and ones lacking either marker.
ReplyTexts ==
    { << >>,
      <<"plain text">>,
      BeginMarker,
      EndMarker,
      BeginMarker \o EndMarker,
      EndMarker \o BeginMarker,
      BeginMarker \o <<"X">> \o EndMarker,
      BeginMarker \o <<"X">>,
      <<"X">> \o EndMarker }

starts_with(s, p) == Len(s) >= Len(p) /\ SubSeq(s, 1, Len(p)) = p

ends_with(s, p) == Len(s) >= Len(p) /\ SubSeq(s, Len(s) - Len(p) + 1, Len(s)) = p

\* Reply::new rejecting a text only when both markers are missing.
Reply_new_either_marker(reply) ==
    IF ~starts_with(reply, BeginMarker) /\ ~ends_with(reply, EndMarker)
    THEN Err("ClientError", "Mesage not PGP encrypted")
    ELSE Ok([reply |-> reply])

Reply_new(reply) ==
    IF ~starts_with(reply, BeginMarker) \/ ~ends_with(reply, EndMarker)
    THEN Err("ClientError", "Mesage not PGP encrypted")
    ELSE Ok([reply |-> reply])

\* The texts Reply::new is tried on by itself: every string of at most
\* MaxText pieces, the pieces being the parts of the two markers and other
\* text, so that a marker may be whole, cut short, misplaced or overlapping.
MaxText == 7

ReplyUnits == {"-----", "BEGIN PGP MESSAGE", "END PGP MESSAGE", "text"}

ReplyInputs == UNION { [1..n -> ReplyUnits] : n \in 0..MaxText }

\* The Reply values a caller can hold: those Reply::new returned in Ok.
Replies == { Reply_new(t).val : t \in { u \in ReplyTexts : Reply_new(u).kind = "Ok" } }

\* ------------------------------------------------- client.rs: operations

\* A JSON operation that sends its request a second time when the first
\* attempt came back as an error.
JsonCall_retries(name, args, method, path, body, T, resp) ==
    /\ alive
    /\ nreq < MaxRequests
    /\ request' = Request(method, url(url_base, path), headers(auth), body)
    /\ result' = parse_json(resp, T)
    /\ nreq' = IF parse_json(resp, T).kind = "Ok" THEN nreq + 1 ELSE nreq + 2
    /\ call' = [name |-> name, args |-> args]
    /\ response' = resp
    /\ sink' = << >>
    /\ io_cut' = -1
    /\ UNCHANGED <<alive, url_base, auth, token_exchange, reauth_at, reauth_failed, exchanged>>

\* What a JSON resource operation does once its method, path, body and
\* expected type are fixed: one request with headers(), classified by
\* parse_json. The client is borrowed immutably: its fields stay as they are.
JsonCall(name, args, method, path, body, T, resp) ==
    /\ alive
    /\ nreq < MaxRequests
    /\ request' = Request(method, url(url_base, path), headers(auth), body)
    /\ result' = parse_json(resp, T)
    /\ nreq' = nreq + 1
    /\ call' = [name |-> name, args |-> args]
    /\ response' = resp
    /\ sink' = << >>
    /\ io_cut' = -1
    /\ UNCHANGED <<alive, url_base, auth, token_exchange, reauth_at, reauth_failed, exchanged>>

\* Response::copy_to into the caller's sink: cut < 0 copies the whole body;
\* cut = k is an I/O failure (of the read or of the sink) after k bytes.
\* A copy that loses the first byte of the body.
copy_to_skips_first(resp, cut) ==
    LET bytes == BodyBytes(resp.body)
        rest == IF bytes = << >> THEN << >> ELSE Tail(bytes)
    IN  IF cut < 0
        THEN [kind |-> "Ok", val |-> "unit", written |-> rest]
        ELSE [kind |-> "IO", val |-> "io error", written |-> SubSeq(rest, 1, cut)]

copy_to(resp, cut) ==
    LET bytes == BodyBytes(resp.body)
    IN  IF cut < 0
        THEN [kind |-> "Ok", val |-> "unit", written |-> bytes]
        ELSE [kind |-> "IO", val |-> "io error", written |-> SubSeq(bytes, 1, cut)]

\* Download headers built without the call to auth_header.
download_headers_no_auth(a) ==
    SetHeader(NoHeaders, "Content-Type", "appication/pgp-encrypted")

\* The headers download_submission builds itself (the content type is
\* spelled as in the source).
download_headers(a) ==
    auth_header(a, SetHeader(NoHeaders, "Content-Type", "appication/pgp-encrypted"))

\* ----------------------------------------------------------------- actions

Init ==
    /\ alive = FALSE
    /\ url_base = NoUrl
    /\ auth = NoAuth
    /\ nreq = 0
    /\ call = [name |-> "none", args |-> << >>]
    /\ request = NoRequest
    /\ response = NoResponse
    /\ result = NoResult
    /\ sink = << >>
    /\ io_cut = -1
    /\ token_exchange = 0
    /\ reauth_at = 0
    /\ reauth_failed = FALSE
    /\ exchanged = FALSE

\* Client::new(url_base, credentials): the client exists for the caller only
\* if authorize returned Ok; on Err it is dropped.
New(base, creds, resp) ==
    /\ ~alive
    /\ nreq < MaxRequests
    /\ LET a == AuthCredentials(creds)
           r == authorize(a, resp)
       IN  /\ request' = authorize_request(a, base)
           /\ result' = r.result
           /\ alive' = (r.result.kind = "Ok")
           /\ url_base' = IF r.result.kind = "Ok" THEN base ELSE NoUrl
           /\ auth' = IF r.result.kind = "Ok" THEN r.auth ELSE NoAuth
           /\ token_exchange' = IF r.result.kind = "Ok" THEN nreq + 1 ELSE 0
    /\ nreq' = nreq + 1
    /\ call' = [name |-> "new", args |-> <<base, creds>>]
    /\ response' = resp
    /\ sink' = << >>
    /\ io_cut' = -1
    /\ reauth_at' = 0
    /\ reauth_failed' = FALSE
    /\ exchanged' = (exchanged \/ TokenIssued(resp))

\* Client::reauthorize(credentials).
Reauthorize(creds, resp) ==
    /\ alive
    /\ nreq < MaxRequests
    /\ LET a == reauthorize_state(auth, creds)
           r == authorize(a, resp)
       IN  /\ request' = authorize_request(a, url_base)
           /\ result' = r.result
           /\ auth' = r.auth
           /\ reauth_failed' = (r.result.kind # "Ok")
           /\ token_exchange' =
                  IF r.result.kind = "Ok" THEN nreq + 1
                  ELSE IF r.auth.kind = "Token" THEN token_exchange
                  ELSE 0
    /\ nreq' = nreq + 1
    /\ call' = [name |-> "reauthorize", args |-> <<creds>>]
    /\ response' = resp
    /\ sink' = << >>
    /\ io_cut' = -1
    /\ reauth_at' = nreq + 1
    /\ exchanged' = (exchanged \/ TokenIssued(resp))
    /\ UNCHANGED <<alive, url_base>>

Sources(resp) ==
    JsonCall("sources", << >>, "GET", <<"sources">>, << >>, "Sources", resp)

Source(filesystem_id, resp) ==
    JsonCall("source", <<filesystem_id>>, "GET", <<"sources", filesystem_id>>, << >>,
             "Source", resp)

SourceSubmissions(filesystem_id, resp) ==
    JsonCall("source_submissions", <<filesystem_id>>, "GET",
             <<"sources", filesystem_id, "submissions">>, << >>, "Submissions", resp)

SourceSubmission(filesystem_id, submission_id, resp) ==
    JsonCall("source_submission", <<filesystem_id, submission_id>>, "GET",
             <<"sources", filesystem_id, "submissions", ToString(submission_id)>>, << >>,
             "Submission", resp)

ReplyToSource(filesystem_id, reply, resp) ==
    JsonCall("reply_to_source", <<filesystem_id, reply>>, "POST",
             <<"sources", filesystem_id, "reply">>, <<reply>>, "Response", resp)

DeleteSourceSubmission(filesystem_id, submission_id, resp) ==
    JsonCall("delete_source_submission", <<filesystem_id, submission_id>>, "DELETE",
             <<"sources", filesystem_id, "submissions", ToString(submission_id)>>, << >>,
             "Submission", resp)

DownloadSubmission(filesystem_id, submission_id, resp, cut) ==
    /\ alive
    /\ nreq < MaxRequests
    /\ request' =
          Request("GET",
                  url(url_base, <<"sources", filesystem_id, "submissions",
                                  ToString(submission_id), "download">>),
                  download_headers(auth), << >>)
    /\ LET r == parse_req(resp, copy_to(resp, cut))
       IN  /\ result' = [kind |-> r.kind, val |-> r.val]
           /\ sink' = IF "written" \in DOMAIN r THEN r.written ELSE << >>
    /\ io_cut' = cut
    /\ nreq' = nreq + 1
    /\ call' = [name |-> "download_submission", args |-> <<filesystem_id, submission_id>>]
    /\ response' = resp
    /\ UNCHANGED <<alive, url_base, auth, token_exchange, reauth_at, reauth_failed, exchanged>>

DeleteSubmissions(filesystem_id, resp) ==
    JsonCall("delete_submissions", <<filesystem_id>>, "DELETE",
             <<"sources", filesystem_id, "submissions">>, << >>, "Response", resp)

StarSource(filesystem_id, resp) ==
    JsonCall("star_source", <<filesystem_id>>, "POST",
             <<"sources", filesystem_id, "star">>, << >>, "Response", resp)

UnstarSource(filesystem_id, resp) ==
    JsonCall("unstar_source", <<filesystem_id>>, "DELETE",
             <<"sources", filesystem_id, "star">>, << >>, "Response", resp)

User(resp) ==
    JsonCall("user", << >>, "GET", <<"user">>, << >>, "User", resp)

\* Everything send() can return to an operation expecting T, and to a download.
Outcomes(T) == HttpResponses(BodiesFor(T)) \cup TransportErrors

DownloadOutcomes ==
    HttpResponses(RawBodies \cup { b \in JsonBodies : b.shape \in {"message", "string"} })
    \cup TransportErrors

\* The points at which a download can fail with an I/O error: none (-1), or
\* after k bytes of a body that send() returned with a success status.
Cuts(resp) ==
    IF resp.ok /\ is_success(resp.status)
    THEN {-1} \cup (0..Len(BodyBytes(resp.body)))
    ELSE {-1}

Next ==
    \/ \E base \in UrlBases, creds \in CredentialInputs, resp \in Outcomes("AuthToken") :
          New(base, creds, resp)
    \/ \E creds \in CredentialInputs, resp \in Outcomes("AuthToken") :
          Reauthorize(creds, resp)
    \/ \E resp \in Outcomes("Sources") : Sources(resp)
    \/ \E id \in FilesystemIds, resp \in Outcomes("Source") : Source(id, resp)
    \/ \E id \in FilesystemIds, resp \in Outcomes("Submissions") :
          SourceSubmissions(id, resp)
    \/ \E id \in FilesystemIds, sub \in SubmissionIds, resp \in Outcomes("Submission") :
          SourceSubmission(id, sub, resp)
    \/ \E id \in FilesystemIds, reply \in Replies, resp \in Outcomes("Response") :
          ReplyToSource(id, reply, resp)
    \/ \E id \in FilesystemIds, sub \in SubmissionIds, resp \in Outcomes("Submission") :
          DeleteSourceSubmission(id, sub, resp)
    \/ \E id \in FilesystemIds, sub \in SubmissionIds, resp \in DownloadOutcomes :
          \E cut \in Cuts(resp) : DownloadSubmission(id, sub, resp, cut)
    \/ \E id \in FilesystemIds, resp \in Outcomes("Response") : DeleteSubmissions(id, resp)
    \/ \E id \in FilesystemIds, resp \in Outcomes("Response") : StarSource(id, resp)
    \/ \E id \in FilesystemIds, resp \in Outcomes("Response") : UnstarSource(id, resp)
    \/ \E resp \in Outcomes("User") : User(resp)

Spec == Init /\ [][Next]_vars

\* ------------------------------------------------------------------ claims

ResourceOps ==
    { "sources", "source", "source_submissions", "source_submission", "reply_to_source",
      "delete_source_submission", "download_submission", "delete_submissions",
      "star_source", "unstar_source", "user" }

JsonResourceOps == ResourceOps \ {"download_submission"}

TokenPath == <<"api", "v1", "token">>

HasAuthorization(req) == "Authorization" \in DOMAIN req.headers

\* The token endpoint answered with a success status and a token object.
ExchangeSucceeded(resp) ==
    resp.ok /\ resp.status \in 200..299 /\ resp.body.shape = "token"

\* The state Client::new leaves, and the step it (and nothing else, while no
\* client exists) takes.
C1_NewStateOk ==
    call.name = "new" =>
        /\ request.method = "POST"
        /\ request.url.path = TokenPath
        /\ alive <=> ExchangeSucceeded(response)
        /\ alive =>
              /\ result.kind = "Ok"
              /\ auth.kind = "Token"
              /\ auth.token.token = response.body.val
        /\ ~alive => result.kind \in ErrorKinds /\ auth.kind = "None"

C1_NewStep ==
    /\ call'.name = "new" => nreq' = nreq + 1
    /\ ~alive => call'.name = "new"

\* C1: Client::new dispatches exactly one request, the POST to the token
\* endpoint; it returns a client exactly when that exchange succeeded, the
\* client then holds the token of that response; when the exchange failed it
\* returns the error, and while no client exists the only call possible is
\* Client::new.
C1_NewYieldsEngineOnlyOnSuccess ==
    [](C1_NewStateOk) /\ [][C1_NewStep]_vars

C1_Witness_NewFailedThenSucceeded ==
    /\ call.name = "new"
    /\ alive
    /\ nreq = 2
    /\ auth.kind = "Token"

\* C2 as stated: after a reauthorize that returned Err, and until one returns
\* Ok, every resource operation returns an error.
C2_Original_EveryCallFailsAfterFailedReauthorize ==
    (reauth_failed /\ call.name \in ResourceOps) => result.kind # "Ok"

\* C2 as amended: after a reauthorize that returned Err, and until one returns
\* Ok, the client holds no token but the rejected credentials, every resource
\* operation is sent without an Authorization header, and it returns an error
\* unless the server answers that request with a success status.
C2_NoTokenAfterFailedReauthorize ==
    reauth_failed =>
        /\ auth.kind = "Credentials"
        /\ call.name = "reauthorize" => result.kind \in ErrorKinds /\ auth.creds = call.args[1]
        /\ call.name \in ResourceOps =>
              /\ ~HasAuthorization(request)
              /\ result.kind = "Ok" => response.ok /\ response.status \in 200..299

C2_Witness_CallAfterFailedReauthorize ==
    /\ reauth_failed
    /\ call.name \in ResourceOps
    /\ result.kind \in ErrorKinds
    /\ response.ok
    /\ response.status = 403

\* C3: once reauthorize has been called, no request carries a token issued
\* before that call: the exchange of the reauthorize itself carries no
\* Authorization header, and a later request carries one only for the token
\* the client holds, which an exchange at or after that reauthorize issued.
C3_OldTokenNeverSentAfterReauthorize ==
    reauth_at > 0 =>
        /\ call.name = "reauthorize" => ~HasAuthorization(request)
        /\ HasAuthorization(request) =>
              /\ auth.kind = "Token"
              /\ token_exchange >= reauth_at
              /\ request.headers["Authorization"] = <<"Token ", auth.token.token>>

C3_Witness_NewTokenSentAfterReauthorize ==
    /\ reauth_at > 0
    /\ call.name \in ResourceOps
    /\ HasAuthorization(request)
    /\ token_exchange = reauth_at

\* C4 as stated: a 4xx response whose body is the error record
\* {"message": m} makes the operation return ClientError(m).
C4_Claim_ErrorRecordYieldsClientError ==
    (call.name # "none" /\ response.ok /\ response.status \in 400..499
        /\ response.body.shape = "message")
    => (result.kind = "ClientError" /\ result.val = response.body.val)

\* C5: a 5xx response makes every operation return ServerError, whatever
\* the body is.
C5_ServerErrorWhateverTheBody ==
    (call.name # "none" /\ response.ok /\ response.status \in 500..599)
    => result.kind = "ServerError"

C5_Witness_503Unparseable ==
    /\ call.name \in ResourceOps
    /\ response.ok
    /\ response.status = 503
    /\ response.body.shape = "garbage"
    /\ result.kind = "ServerError"

\* The type each JSON resource operation decodes a success body into.
ExpectedType(name) ==
    CASE name = "sources" -> "Sources"
      [] name = "source" -> "Source"
      [] name = "source_submissions" -> "Submissions"
      [] name \in {"source_submission", "delete_source_submission"} -> "Submission"
      [] name \in {"reply_to_source", "delete_submissions", "star_source", "unstar_source"}
            -> "Response"
      [] name = "user" -> "User"

\* What a decode failure returns, and what its step leaves alone.
C6_DecodeFailureState ==
    (call.name \in JsonResourceOps /\ response.ok /\ response.status \in 200..299
        /\ response.body.shape # ShapeOf(ExpectedType(call.name)))
    => result.kind = "ProgrammingError"

C6_DecodeFailureStep ==
    (call'.name \in JsonResourceOps /\ result'.kind = "ProgrammingError")
    => (auth' = auth /\ alive' = alive)

\* C6: a JSON resource operation that gets a 2xx response whose body is not
\* of the type it expects returns ProgrammingError, and the step leaves the
\* client's authorization state as it was.
C6_DecodeFailureKeepsAuthorization ==
    [](C6_DecodeFailureState) /\ [][C6_DecodeFailureStep]_vars

C6_Witness_UserGetsMessageBody ==
    /\ call.name = "user"
    /\ response.ok
    /\ response.status = 200
    /\ response.body.shape = "message"
    /\ result.kind = "ProgrammingError"
    /\ auth.kind = "Token"

\* The outcomes C7 lists for an operation: IO for a download alone.
ListedOutcomes(name) ==
    {"Ok", "NetworkError", "ServerError", "ClientError", "ProgrammingError", "UnknownError"}
    \cup (IF name = "download_submission" THEN {"IO"} ELSE {})

\* Totality as a property of each state, determinism as one of each step.
C7_Total == call.name # "none" => result.kind \in ListedOutcomes(call.name)

C7_SameInputSameOutcome ==
    (call'.name = call.name /\ response'.ok = response.ok
        /\ (response.ok => (response'.status = response.status
                             /\ response'.body.shape = response.body.shape
                             /\ response'.body.val = response.body.val))
        /\ (~response.ok => response'.kind = response.kind)
        /\ io_cut' = io_cut)
    => (result'.kind = result.kind /\ result'.val = result.val)

\* C7: whatever send() returned, the operation's result is one of the listed
\* outcomes (never none, never another kind), and the same operation given
\* the same outcome of send() (and, for a download, of the copy to the sink)
\* twice in a row returns the same result.
C7_ClassificationTotalDeterministic ==
    [](C7_Total) /\ [][C7_SameInputSameOutcome]_vars

C7_Witness_UnknownErrorOn302 ==
    /\ call.name \in ResourceOps
    /\ response.ok
    /\ response.status = 302
    /\ result.kind = "UnknownError"

\* C8 as stated: a failure of send() (no HTTP response) is classified as
\* NetworkError.
C8_Original_EveryTransportFailureIsNetworkError ==
    (call.name # "none" /\ ~response.ok) => result.kind = "NetworkError"

\* C8 as amended: a failure of send() that is not an error of the HTTP
\* protocol layer (is_http() is false: I/O, TLS) is classified as
\* NetworkError; one that is (is_http() is true) as UnknownError.
C8_TransportFailureClassification ==
    (call.name # "none" /\ ~response.ok) =>
        /\ response.kind # "Http" => result.kind = "NetworkError"
        /\ response.kind = "Http" => result.kind = "UnknownError"

C8_Witness_IoFailure ==
    /\ call.name \in ResourceOps
    /\ ~response.ok
    /\ response.kind = "Io"
    /\ result.kind = "NetworkError"

\* C9 as stated: when the token endpoint rejects the credentials sent by
\* Client::new or reauthorize, the error returned is AuthError.
C9_Claim_RejectedCredentialsYieldAuthError ==
    (call.name \in {"new", "reauthorize"} /\ response.ok /\ response.status = 403
        /\ response.body.shape \in {"message", "string"})
    => result.kind = "AuthError"

\* C10: a resource request carries Authorization: Token <t> exactly when the
\* client is in state Token(t); a JSON resource request also carries
\* Content-Type: application/json and Accept: application/json.
C10_HeadersFollowAuthorizationState ==
    call.name \in ResourceOps =>
        /\ HasAuthorization(request) <=> auth.kind = "Token"
        /\ auth.kind = "Token" =>
              request.headers["Authorization"] = <<"Token ", auth.token.token>>
        /\ call.name \in JsonResourceOps =>
              /\ "Content-Type" \in DOMAIN request.headers
              /\ request.headers["Content-Type"] = "application/json"
              /\ "Accept" \in DOMAIN request.headers
              /\ request.headers["Accept"] = "application/json"

C10_Witness_DownloadCarriesToken ==
    /\ call.name = "download_submission"
    /\ auth.kind = "Token"
    /\ HasAuthorization(request)
    /\ request.headers["Authorization"] = <<"Token ", "tokB">>

\* ------------------------------------------- data.rs, auth.rs on their own

\* A caller holding a text, or credentials, and no client yet.
PureInit ==
    /\ \/ \E reply \in ReplyInputs : call = [name |-> "text", args |-> <<reply>>]
       \/ \E creds \in SerializeInputs : call = [name |-> "credentials", args |-> <<creds>>]
    /\ alive = FALSE
    /\ url_base = NoUrl
    /\ auth = NoAuth
    /\ nreq = 0
    /\ request = NoRequest
    /\ response = NoResponse
    /\ result = NoResult
    /\ sink = << >>
    /\ io_cut = -1
    /\ token_exchange = 0
    /\ reauth_at = 0
    /\ reauth_failed = FALSE
    /\ exchanged = FALSE

\* Reply::new called on a text: a value is built or refused; nothing is sent.
ReplyNew(reply) ==
    /\ call.name = "text"
    /\ call' = [name |-> "Reply::new", args |-> <<reply>>]
    /\ result' = Reply_new(reply)
    /\ UNCHANGED <<alive, url_base, auth, nreq, request, response, sink, io_cut,
                   token_exchange, reauth_at, reauth_failed, exchanged>>

\* serde_json::to_value(&creds), as the test in auth.rs calls it.
Serialize(creds) ==
    /\ call.name = "credentials"
    /\ call' = [name |-> "serialize", args |-> <<creds>>]
    /\ result' = Ok(SerializeCredentials(creds))
    /\ UNCHANGED <<alive, url_base, auth, nreq, request, response, sink, io_cut,
                   token_exchange, reauth_at, reauth_failed, exchanged>>

PureNext ==
    \/ ReplyNew(call.args[1])
    \/ Serialize(call.args[1])

PureSpec == PureInit /\ [][PureNext]_vars

C12_ReplyNewAcceptsArmoredOnly ==
    call.name = "Reply::new" =>
        LET s == call.args[1]
            begins == \E n \in 0..Len(s) : SubSeq(s, 1, n) = BeginMarker
            ends == \E n \in 1..(Len(s) + 1) : SubSeq(s, n, Len(s)) = EndMarker
        IN  /\ result.kind = "Ok" <=> (begins /\ ends)
            /\ result.kind = "Ok" => result.val = [reply |-> s]
            /\ result.kind # "Ok" => result.kind = "ClientError"
            /\ nreq = 0
            /\ request = NoRequest
            /\ response = NoResponse

C12_Witness_ArmoredTextAccepted ==
    /\ call.name = "Reply::new"
    /\ call.args[1] = BeginMarker \o <<"text">> \o EndMarker
    /\ result.kind = "Ok"

\* C13: whichever variant the credentials are and whatever username,
\* passphrase and one-time code they hold, their serialization has exactly
\* the keys username, password and one_time_code, and its one_time_code is
\* the code the caller supplied.
C13_SerializedCredentialsShape ==
    call.name = "serialize" =>
        LET c == call.args[1]
        IN  /\ result.kind = "Ok"
            /\ DOMAIN result.val = {"username", "password", "one_time_code"}
            /\ result.val.username = c.inner.username
            /\ result.val.password = c.inner.passphrase
            /\ result.val.one_time_code = c.inner.one_time_code

C13_Witness_HotpCodeVerbatim ==
    /\ call.name = "serialize"
    /\ call.args[1].variant = "UserPassHotp"
    /\ call.args[1].inner.one_time_code = "DEADBEEF"
    /\ result.kind = "Ok"
    /\ result.val.one_time_code = "DEADBEEF"

\* C14: whatever the operation, the URL requested is the base URL given to
\* Client::new, kept whole with the path it may have, followed by api/v1/
\* and the operation's own path.
C14_Claim_BaseUrlKeptWhole ==
    call.name \in {"new", "reauthorize"} \cup ResourceOps =>
        LET base == IF call.name = "new" THEN call.args[1] ELSE url_base
            prefix == base.path \o <<"api", "v1">>
        IN  /\ request.url.origin = base.origin
            /\ Len(request.url.path) > Len(prefix)
            /\ SubSeq(request.url.path, 1, Len(prefix)) = prefix

\* C15 as stated: with a 2xx status download_submission always leaves the
\* whole body in the sink and returns Ok; otherwise the sink stays empty.
C15_Original_2xxAlwaysWholeBodyAndOk ==
    call.name = "download_submission" =>
        IF response.ok /\ is_success(response.status)
        THEN sink = BodyBytes(response.body) /\ result.kind = "Ok"
        ELSE sink = << >>

\* C15: with a 2xx status and a copy that meets no I/O failure, the sink
\* holds exactly the bytes of the body, in order, and the result is Ok; a
\* copy that fails after k bytes leaves the first k bytes of the body in the
\* sink and the result is IO; with any other status, or a transport failure,
\* the result is an error and the sink holds no byte.
C15_SinkHoldsBodyOrItsPrefix ==
    call.name = "download_submission" =>
        IF response.ok /\ is_success(response.status)
        THEN IF io_cut < 0
             THEN sink = BodyBytes(response.body) /\ result.kind = "Ok"
             ELSE /\ sink = SubSeq(BodyBytes(response.body), 1, io_cut)
                  /\ result.kind = "IO"
        ELSE sink = << >> /\ result.kind \in ErrorKinds \ {"IO"}

C15_Witness_TwoBytesInOrder ==
    /\ call.name = "download_submission"
    /\ response.ok
    /\ response.status = 200
    /\ BodyBytes(response.body) = <<"y", "x">>
    /\ sink = <<"y", "x">>
    /\ result.kind = "Ok"

\* C16: a client's authorization is always Credentials(c) or Token(t); it
\* changes in Client::new and reauthorize only; an exchange that succeeds
\* leaves Token(t) with t the token decoded from that exchange's response;
\* a resource operation leaves it as it was, whatever the outcome.
C16_AuthorizationStateDiscipline ==
    [][ /\ alive' => auth'.kind \in {"Credentials", "Token"}
        /\ auth' # auth => call'.name \in {"new", "reauthorize"}
        /\ (call'.name \in {"new", "reauthorize"} /\ result'.kind = "Ok") =>
              /\ response'.ok
              /\ response'.body.shape = "token"
              /\ auth'.kind = "Token"
              /\ auth'.token.token = response'.body.val
        /\ call'.name \in ResourceOps => auth' = auth ]_vars

C16_Witness_TokenOfReauthorizeKeptByFailedCall ==
    /\ call.name \in ResourceOps
    /\ result.kind \in ErrorKinds
    /\ auth.kind = "Token"
    /\ reauth_at > 0
    /\ token_exchange = reauth_at

\* C17: a resource request is sent by a client only after the token
\* endpoint has answered that client's construction with a token: no
\* resource operation precedes the first successful exchange.
C17_ResourceRequestOnlyAfterExchange ==
    call.name \in ResourceOps =>
        /\ alive
        /\ exchanged
        /\ nreq >= 2

C17_Witness_CallAfterSecondConstruction ==
    /\ call.name \in ResourceOps
    /\ exchanged
    /\ token_exchange = 2
    /\ nreq = 3

\* C18: whatever the operation, a 4xx response whose body is not an error
\* record {"message": m} is classified as ProgrammingError with the parse
\* failure detail, never as ClientError or UnknownError.
C18_Claim_UndecodableErrorBodyYieldsParseFailure ==
    (/\ call.name \in {"new", "reauthorize"} \cup ResourceOps
     /\ response.ok
     /\ is_client_error(response.status)
     /\ response.body.shape # "message") =>
        /\ result.kind = "ProgrammingError"
        /\ result.val = "Parse failure."

\* C19: the status alone picks the branch: 2xx goes to the operation's
\* success handling, 5xx is ServerError, 4xx is ClientError or the parse
\* failure, and every other status (1xx, 3xx) is UnknownError; the ranges
\* share no status.
C19_StatusRangePicksBranch ==
    (call.name \in {"new", "reauthorize"} \cup ResourceOps /\ response.ok) =>
        LET st == response.status
        IN  /\ st \in 200..299 => result.kind \in {"Ok", "ProgrammingError", "IO"}
            /\ st \in 500..599 => result.kind = "ServerError"
            /\ st \in 400..499 => result.kind \in {"ClientError", "ProgrammingError"}
            /\ st \notin (200..299) \cup (400..599) => result.kind = "UnknownError"

C19_Witness_199IsUnknownError ==
    /\ call.name \in ResourceOps
    /\ response.ok
    /\ response.status = 199
    /\ result.kind = "UnknownError"

\* C20: the body of a token exchange is one serialization of the
\* credentials given to the call that started the exchange (Client::new or
\* this reauthorize), and a resource request carries no credentials, so
\* credentials given to an earlier call are not sent again.
C20_ExchangeSendsCredentialsOfItsCall ==
    /\ call.name \in {"new", "reauthorize"} =>
          LET c == (IF call.name = "new" THEN call.args[2] ELSE call.args[1]).inner
          IN  /\ request.url.path = TokenPath
              /\ request.body = << [username |-> c.username,
                                    password |-> c.passphrase,
                                    one_time_code |-> c.one_time_code] >>
    /\ call.name \in ResourceOps =>
          \A i \in 1..Len(request.body) : "password" \notin DOMAIN request.body[i]

C20_Witness_ReauthorizeSendsItsOwnCredentials ==
    /\ call.name = "reauthorize"
    /\ call.args[1].variant = "UserPassHotp"
    /\ Len(request.body) = 1
    /\ request.body[1].one_time_code = "DEADBEEF"
    /\ reauth_at = nreq

\* C21: authorize is only ever entered with the client in the Credentials
\* state, so its Token branch (a POST to the token endpoint without a body)
\* is never taken: every request to the token endpoint is a POST whose body
\* is one credentials record and which has no Authorization header.
C21_TokenRequestCarriesCredentialsOnly ==
    request.url.path = TokenPath =>
        /\ call.name \in {"new", "reauthorize"}
        /\ request.method = "POST"
        /\ Len(request.body) = 1
        /\ DOMAIN request.body[1] = {"username", "password", "one_time_code"}
        /\ ~HasAuthorization(request)

C21_Witness_ReauthorizeWhileHoldingToken ==
    /\ call.name = "reauthorize"
    /\ nreq = 2
    /\ request.url.path = TokenPath
    /\ Len(request.body) = 1
    /\ ~HasAuthorization(request)
    /\ result.kind = "Ok"
    /\ auth.kind = "Token"

====
